---- MODULE Spec2Model ----
(***************************************************************************)
(* MarketDataCollector (src/adaptive_revenue_growth_engine/                *)
(* MarketDataCollector.py): the collector's store data_collected, the      *)
(* coroutine collect_data and the two queries get_latest_price and         *)
(* get_historical_data_range.                                              *)
(*                                                                         *)
(* A DataFrame is modelled as the sequence of its rows, a row as a record  *)
(* [date, close].  Dates are 1..MaxDate, ordered like the 'YYYY-MM-DD'     *)
(* strings the code compares.  A DataFrame built from a JSON array of      *)
(* records has a 'date' column exactly when it has a row, so the empty     *)
(* sequence is both pd.DataFrame() and the frame of an empty array.        *)
(***************************************************************************)
EXTENDS Integers, Sequences, FiniteSets, TLC

NumSources == 2

MaxRows == 2

MaxDate == 2

NumCallers == 2

\* self.data_sources: the configured sources, in configuration order.
Sources == 1..NumSources

data_sources == [i \in 1..NumSources |-> i]

Dates == 1..MaxDate

\* The close a source quotes: sources disagree with each other on every date.
Quote(source) == 100 + 5 * (source - 1)

RowsOf(source) == [date : Dates, close : {Quote(source)}]

SeqsUpTo(S, n) == UNION {[1..k -> S] : k \in 0..n}

\* What one source request can come to:
\*   "ok"         status 200 and a JSON array of records (rows)
\*   "http_error" a status other than 200
\*   "conn_error" session.get raises (connection error, timeout)
\*   "malformed"  status 200, but response.json() or pd.DataFrame raises
FailureKinds == {"http_error", "conn_error", "malformed"}

Failures == [kind : FailureKinds, rows : {<<>>}]

ResponsesOf(source) ==
    [kind : {"ok"}, rows : SeqsUpTo(RowsOf(source), MaxRows)] \cup Failures

ResponseVectors ==
    {resps \in [Sources -> UNION {ResponsesOf(s) : s \in Sources}] :
        \A s \in Sources : resps[s] \in ResponsesOf(s)}

\* Return values: None, or a DataFrame.
None == [kind |-> "None", rows |-> <<>>]

Df(rows) == [kind |-> "df", rows |-> rows]

NoCall == [kind |-> "nocall", rows |-> <<>>]

\* Return values of get_latest_price: None, or a closing price.
NoPrice == [kind |-> "None", close |-> 0]

Price(c) == [kind |-> "price", close |-> c]

VARIABLES
    api_keys,        \* self.api_keys: the sources that have a key
    data_collected,  \* self.data_collected
    pc,              \* per caller: "idle", or "loop" inside collect_data
    idx,             \* per caller: position of the for loop in data_sources
    dataframes,      \* per caller: the local list dataframes
    got,             \* per caller: the responses received so far in this call
    last,            \* the collect_data call that returned last
    writer,          \* the responses of the call that last assigned data_collected
    answer           \* the last query and what it returned

vars == <<api_keys, data_collected, pc, idx, dataframes, got, last, writer, answer>>

Callers == 1..NumCallers

\* No query has returned since the last step of a collect_data call.
NoAnswer == [op |-> "none", start |-> 0, end |-> 0, price |-> NoPrice, frame |-> None]

----------------------------------------------------------------------------
(* collect_data *)

\* Lines 49-58: one source's response. Only a 200 with a parseable body is
\* appended; every other outcome is logged and the loop goes on.
HandleResponse(dfs, resp) ==
    IF resp.kind = "conn_error" THEN dfs
    ELSE IF resp.kind = "http_error" THEN dfs
    ELSE IF resp.kind = "malformed" THEN dfs
    ELSE Append(dfs, resp.rows)

\* pd.concat: the rows of the frames, in list order, nothing dropped or sorted.
RECURSIVE PdConcat(_)
PdConcat(dfs) ==
    IF dfs = <<>> THEN <<>> ELSE Head(dfs) \o PdConcat(Tail(dfs))

\* Merge without the raise of lines 60-61.
MergeNoRaise(store, dfs) ==
    [store |-> PdConcat(dfs), ret |-> Df(PdConcat(dfs))]

\* Merge extending the store instead of replacing it.
MergeAppend(store, dfs) ==
    IF dfs = <<>>
    THEN [store |-> store, ret |-> None]
    ELSE [store |-> store \o PdConcat(dfs), ret |-> Df(store \o PdConcat(dfs))]

\* Lines 60-69: after the loop. [store, ret]: the store and the return value.
Merge(store, dfs) ==
    IF dfs = <<>>
    THEN [store |-> store, ret |-> None]
    ELSE [store |-> PdConcat(dfs), ret |-> Df(PdConcat(dfs))]

\* Line 46 raising KeyError, caught at lines 67-69.
Abort(store) == [store |-> store, ret |-> None]

\* Lines 45-58: the for loop from position i on, with the responses resps the
\* sources would give. raised: the loop was left by the KeyError of line 46.
RECURSIVE RunLoop(_, _, _, _, _)
RunLoop(i, dfs, log, resps, keys) ==
    IF i > NumSources
    THEN [raised |-> FALSE, dataframes |-> dfs, got |-> log]
    ELSE IF data_sources[i] \notin keys
    THEN [raised |-> TRUE, dataframes |-> dfs, got |-> log]
    ELSE RunLoop(i + 1, HandleResponse(dfs, resps[data_sources[i]]),
                 Append(log, resps[data_sources[i]]), resps, keys)

\* What a returning call leaves in the ghost variables last and writer.
Returned(log, out) ==
    /\ last' = [seq |-> 1 - last.seq, responses |-> log, ret |-> out.ret,
                repeat |-> (last.ret # NoCall /\ log = last.responses)]
    /\ writer' = IF out.ret.kind = "df" THEN log ELSE writer

\* collect_data awaited with nothing else scheduled: the whole call.
collect_data(resps) ==
    LET run == RunLoop(1, <<>>, <<>>, resps, api_keys)
        out == IF run.raised THEN Abort(data_collected)
               ELSE Merge(data_collected, run.dataframes)
    IN /\ \A c \in Callers : pc[c] = "idle"
       /\ data_collected' = out.store
       /\ Returned(run.got, out)
       /\ answer' = NoAnswer
       /\ UNCHANGED <<api_keys, pc, idx, dataframes, got>>

----------------------------------------------------------------------------
(* collect_data as a task among others: it is suspended at every source    *)
(* request, and other tasks (collect_data calls, queries) run meanwhile.   *)

\* The responses drawn when calls overlap: at most one row, one failure kind.
ShortResponsesOf(source) ==
    {resp \in ResponsesOf(source) :
        Len(resp.rows) <= 1 /\ resp.kind \in {"ok", "http_error"}}

\* Lines 40-43: the call starts, with its own empty list dataframes.
begin(c) ==
    /\ pc[c] = "idle"
    /\ pc' = [pc EXCEPT ![c] = "loop"]
    /\ idx' = [idx EXCEPT ![c] = 1]
    /\ dataframes' = [dataframes EXCEPT ![c] = <<>>]
    /\ got' = [got EXCEPT ![c] = <<>>]
    /\ answer' = NoAnswer
    /\ UNCHANGED <<api_keys, data_collected, last, writer>>

\* fetch assigning self.data_collected inside the loop.
fetch_eager(c) ==
    /\ pc[c] = "loop"
    /\ idx[c] <= NumSources
    /\ data_sources[idx[c]] \in api_keys
    /\ \E resp \in ShortResponsesOf(data_sources[idx[c]]) :
          /\ dataframes' = [dataframes EXCEPT ![c] = HandleResponse(@, resp)]
          /\ got' = [got EXCEPT ![c] = Append(@, resp)]
          /\ data_collected' = PdConcat(HandleResponse(dataframes[c], resp))
    /\ idx' = [idx EXCEPT ![c] = @ + 1]
    /\ answer' = NoAnswer
    /\ UNCHANGED <<api_keys, pc, last, writer>>

\* Lines 45-58: one iteration of the loop whose source has a key; the task
\* is suspended on the request and resumes with the response.
fetch(c) ==
    /\ pc[c] = "loop"
    /\ idx[c] <= NumSources
    /\ data_sources[idx[c]] \in api_keys
    /\ \E resp \in ShortResponsesOf(data_sources[idx[c]]) :
          /\ dataframes' = [dataframes EXCEPT ![c] = HandleResponse(@, resp)]
          /\ got' = [got EXCEPT ![c] = Append(@, resp)]
    /\ idx' = [idx EXCEPT ![c] = @ + 1]
    /\ answer' = NoAnswer
    /\ UNCHANGED <<api_keys, data_collected, pc, last, writer>>

\* The call returns: its locals are gone.
Return(c, out) ==
    /\ data_collected' = out.store
    /\ Returned(got[c], out)
    /\ pc' = [pc EXCEPT ![c] = "idle"]
    /\ idx' = [idx EXCEPT ![c] = 1]
    /\ dataframes' = [dataframes EXCEPT ![c] = <<>>]
    /\ got' = [got EXCEPT ![c] = <<>>]
    /\ answer' = NoAnswer
    /\ UNCHANGED api_keys

\* Line 46 for a source without a key: KeyError, lines 67-69.
key_error(c) ==
    /\ pc[c] = "loop"
    /\ idx[c] <= NumSources
    /\ data_sources[idx[c]] \notin api_keys
    /\ Return(c, Abort(data_collected))

\* Lines 60-69, once the loop is over.
merge(c) ==
    /\ pc[c] = "loop"
    /\ idx[c] > NumSources
    /\ Return(c, Merge(data_collected, dataframes[c]))

----------------------------------------------------------------------------
(* queries *)

\* Lines 78-80.
LatestPrice(store) ==
    IF store # <<>> THEN Price(store[Len(store)].close) ELSE NoPrice

InRange(row, start_date, end_date) ==
    row.date >= start_date /\ row.date <= end_date

\* Lines 108-115. The empty frame has no 'date' column: KeyError, None.
HistoricalDataRange(store, start_date, end_date) ==
    IF store = <<>> THEN None
    ELSE Df(SelectSeq(store, LAMBDA row : InRange(row, start_date, end_date)))

get_latest_price ==
    /\ answer' = [op |-> "latest", start |-> 0, end |-> 0,
                  price |-> LatestPrice(data_collected), frame |-> None]
    /\ UNCHANGED <<api_keys, data_collected, pc, idx, dataframes, got, last, writer>>

get_historical_data_range(start_date, end_date) ==
    /\ answer' = [op |-> "range", start |-> start_date, end |-> end_date,
                  price |-> NoPrice,
                  frame |-> HistoricalDataRange(data_collected, start_date, end_date)]
    /\ UNCHANGED <<api_keys, data_collected, pc, idx, dataframes, got, last, writer>>

----------------------------------------------------------------------------

Init ==
    /\ api_keys \in SUBSET Sources
    /\ data_collected = <<>>
    /\ pc = [c \in Callers |-> "idle"]
    /\ idx = [c \in Callers |-> 1]
    /\ dataframes = [c \in Callers |-> <<>>]
    /\ got = [c \in Callers |-> <<>>]
    /\ last = [seq |-> 0, responses |-> <<>>, ret |-> NoCall, repeat |-> FALSE]
    /\ writer = <<>>
    /\ answer = NoAnswer

Next ==
    \/ \E resps \in ResponseVectors : collect_data(resps)
    \/ get_latest_price
    \/ \E s \in Dates, e \in Dates : get_historical_data_range(s, e)

Spec == Init /\ [][Next]_vars

\* Overlapping collect_data tasks and queries.
NextConc ==
    \/ \E c \in Callers : begin(c)
    \/ \E c \in Callers : fetch(c)
    \/ \E c \in Callers : key_error(c)
    \/ \E c \in Callers : merge(c)
    \/ get_latest_price
    \/ \E s \in Dates, e \in Dates : get_historical_data_range(s, e)

SpecConc == Init /\ [][NextConc]_vars

----------------------------------------------------------------------------
(* Properties *)

\* The sources of a response log that answered with data.
OkSources(log) == {i \in DOMAIN log : log[i].kind = "ok"}

\* The dates source i of a log reported.
DatesOf(log, i) == {log[i].rows[k].date : k \in DOMAIN log[i].rows}

\* The rows of the successful responses of a log, in configuration order.
RECURSIVE OkRows(_)
OkRows(log) ==
    IF log = <<>> THEN <<>>
    ELSE (IF Head(log).kind = "ok" THEN Head(log).rows ELSE <<>>) \o OkRows(Tail(log))

AllFailed(log) ==
    /\ Len(log) = NumSources
    /\ \A i \in DOMAIN log : log[i].kind \in FailureKinds

CallReturned == last'.seq # last.seq

HasDuplicateDate(store) ==
    \E j, k \in DOMAIN store : j # k /\ store[j].date = store[k].date

\* C1: after a successful collect_data the store holds exactly one point per
\* date reported by a successful source, and the point of a date is the one
\* of the earliest configured source that reported the date.
C1_EarliestSourceWins ==
    last.ret.kind = "df" =>
        LET log == last.responses
            reported == UNION {DatesOf(log, i) : i \in OkSources(log)}
        IN /\ {data_collected[k].date : k \in DOMAIN data_collected} = reported
           /\ ~HasDuplicateDate(data_collected)
           /\ \A k \in DOMAIN data_collected :
                LET d == data_collected[k].date
                    first == CHOOSE i \in OkSources(log) :
                                /\ d \in DatesOf(log, i)
                                /\ \A j \in OkSources(log) : d \in DatesOf(log, j) => i <= j
                IN data_collected[k].close = Quote(data_sources[first])

\* C2: a collect_data call in which every configured source fails returns
\* None and leaves data_collected as it was before the call.
C2_AllFailedLeavesStore ==
    [][(CallReturned /\ AllFailed(last'.responses))
         => (last'.ret = None /\ data_collected' = data_collected)]_vars

\* C2 witness: a call with every source failing has returned on a populated store.
C2_Witness ==
    /\ AllFailed(last.responses)
    /\ last.ret = None
    /\ data_collected # <<>>
    /\ \E i, j \in DOMAIN last.responses : last.responses[i].kind # last.responses[j].kind

\* C3: the failure of one source, a missing key included, never aborts the
\* others: every configured source is requested, and if one of them answers
\* with data the call returns a frame holding that data, which is the store.
C3_FailureNeverAborts ==
    last.ret # NoCall =>
        /\ Len(last.responses) = NumSources
        /\ OkSources(last.responses) # {} =>
              /\ last.ret.kind = "df"
              /\ data_collected = last.ret.rows
              /\ \A i \in OkSources(last.responses) :
                    \A k \in DOMAIN last.responses[i].rows :
                        \E m \in DOMAIN data_collected :
                            data_collected[m] = last.responses[i].rows[k]

\* C4: the store never holds two points of one date, and its points are in
\* strictly ascending date order.
C4_UniqueAscending ==
    \A j, k \in DOMAIN data_collected :
        j < k => data_collected[j].date < data_collected[k].date

\* C5: get_latest_price returns None on an empty store and otherwise the
\* close of the point with the greatest date in the store.
C5_LatestIsGreatestDate ==
    answer.op = "latest" =>
        IF data_collected = <<>>
        THEN answer.price = NoPrice
        ELSE \E k \in DOMAIN data_collected :
                /\ \A j \in DOMAIN data_collected :
                      data_collected[j].date <= data_collected[k].date
                /\ answer.price = Price(data_collected[k].close)

\* C6: get_historical_data_range fails for start > end, and for start <= end
\* returns exactly the stored points with start <= date <= end, an empty
\* frame when there is none, also on an empty store.
C6_RangeContract ==
    answer.op = "range" =>
        IF answer.start > answer.end
        THEN answer.frame = None
        ELSE answer.frame =
                Df(SelectSeq(data_collected,
                             LAMBDA row : answer.start <= row.date /\ row.date <= answer.end))

\* C7: a populated store is never empty again.
C7_NeverEmptyAgain ==
    [][data_collected # <<>> => data_collected' # <<>>]_vars

\* C8: a collect_data call whose sources answer as they did in the call
\* before leaves the store as that call left it.
C8_Idempotent ==
    [][(CallReturned /\ last'.repeat) => data_collected' = data_collected]_vars

\* C8 witness: a call repeating the one before has returned a frame with two
\* points of one date.
C8_Witness ==
    /\ last.repeat
    /\ last.ret.kind = "df"
    /\ data_collected = last.ret.rows
    /\ HasDuplicateDate(data_collected)

\* C9: a collect_data call returns either None or a non-empty frame, and a
\* frame only if a source answered with data.
C9_NeverEmptySuccess ==
    last.ret # NoCall =>
        \/ last.ret = None
        \/ /\ last.ret.kind = "df"
           /\ last.ret.rows # <<>>
           /\ OkSources(last.responses) # {}

\* C10: with collect_data calls and queries overlapping, the store is always
\* the whole result of one call (the rows of all its successful sources), or
\* still empty, and a query answers from that store.
C10_MergeAtomic ==
    /\ writer # <<>> => Len(writer) = NumSources
    /\ data_collected = OkRows(writer)
    /\ answer.op = "latest" => answer.price = LatestPrice(OkRows(writer))
    /\ answer.op = "range" =>
          answer.frame = HistoricalDataRange(OkRows(writer), answer.start, answer.end)

\* C10 witness: a query has answered from a store an earlier call wrote while
\* every caller is suspended inside a call, one of them holding a source's data.
C10_Witness ==
    /\ \A c \in Callers : pc[c] = "loop"
    /\ \E c \in Callers : dataframes[c] # <<>> /\ PdConcat(dataframes[c]) # <<>>
                          /\ idx[c] <= NumSources
    /\ data_collected # <<>>
    /\ answer.op = "latest"

====
